---- MODULE Spec2Model ----
(***************************************************************************)
(* Response-to-action pipeline of ollama_cli.py (class OllamaCLI):         *)
(* chat_loop, process_response, the four handlers, run_command,            *)
(* _attempt_self_correction, load_file and FileHandler.                    *)
(*                                                                         *)
(* A model response is represented by what the handlers' regular           *)
(* expressions capture from it: the <project_creation> block, the          *)
(* <file_modifications> block, the <shell> tags and the fenced blocks.     *)
(* Paths, contents and commands are drawn from small pools; the string     *)
(* tests of the code (endswith, strip, compile, the fence regex, glob) are *)
(* tables over those pools.                                                *)
(***************************************************************************)
EXTENDS Naturals, Sequences, FiniteSets

(***************************************************************************)
(* Bounds                                                                  *)
(***************************************************************************)
\* <file> entries in one <project_creation> / <file_modifications> block
MaxEntries == 2
\* <shell> tags, or fenced blocks, in one response
MaxCmds == 2
\* user turns (free-text inputs) of the chat loop
MaxTurns == 1

SeqsUpTo(S, n) == UNION {[1..k -> S] : k \in 0..n}

(***************************************************************************)
(* Contents.  <LF> and <CR> stand for the newline characters, <FENCE> for   *)
(* three backticks.                                                        *)
(***************************************************************************)
EMPTY == ""
OK1 == "x = 1"
BAD == "def f(:"
OK2 == "x = 1<LF>y = 2"
OKCR == "x = 1<CR><LF>y = 2"
PADDED == "<LF>x = 1<LF>"
FENCED == "<FENCE>python<LF>x = 1<LF><FENCE>"
SUBDIR == "sub/"
LS == "ls"
LSPAD == " ls "
TOP == "konsole -e top"

\* str.strip()
Strip(s) ==
    CASE s = PADDED -> OK1
      [] s = LSPAD -> LS
      [] OTHER -> s

\* a newline occurs in s
HasNewline(s) == s \in {OK2, OKCR, PADDED, FENCED}

\* re.search(r'```(?:\w+)?\n?(.*)```', s, re.DOTALL), then group(1).strip()
StripFence(s) == IF s = FENCED THEN OK1 ELSE s

\* compile(code, '<string>', 'exec') raises no SyntaxError
CompilesAsPython(code) == code \in {EMPTY, OK1, OK2, OKCR, PADDED}

\* a validator that accepts every content
is_valid_python_lenient(code) == TRUE

\* is_valid_python(code)[0]
is_valid_python(code) == CompilesAsPython(code)

\* text-mode read of what was written: universal newlines turn \r\n into \n
ReadBack(s) == IF s = OKCR THEN OK2 ELSE s

\* difflib.unified_diff(original, proposed) joined: "" iff the line lists agree
DiffText(original, proposed) == IF original = proposed THEN "empty" ELSE "changes"

(***************************************************************************)
(* Paths, relative to working_directory                                    *)
(***************************************************************************)
A_PY == "a.py"
B_TXT == "b.txt"
DIR_D == "d/"
D_OK == "d/x = 1"
D_SUB == "d/sub/"
ID_JS == "[id].js"
I_JS == "i.js"
\* a path attribute that is empty: working_directory / "" is working_directory
NO_PATH == ""
\* an absolute path: working_directory / "/o.txt" is /o.txt
OUTSIDE == "/o.txt"

\* regular files that open() can reach: those the working directory can hold
\* and the one outside of it
Files == {A_PY, B_TXT, D_OK, ID_JS, I_JS, OUTSIDE}
\* directories below the working directory
Dirs == {DIR_D, D_SUB}

\* path.endswith('.py')
EndsWithPy(path) == path = A_PY

\* filepath.relative_to(base_path) raises ValueError
NotBelowBase(path) == path = OUTSIDE

\* path.endswith('/')
EndsWithSlash(path) == path \in {DIR_D, D_SUB}

\* path + file_content
Concat(path, s) ==
    CASE path = DIR_D /\ s = OK1 -> D_OK
      [] path = DIR_D /\ s = SUBDIR -> D_SUB
      [] OTHER -> path

\* directories that filepath.parent.mkdir(parents=True) creates
ParentDirs(path) == IF path = D_OK THEN {DIR_D} ELSE {}

\* directories that filepath.mkdir(parents=True) creates
MkdirDirs(path) == IF path = D_SUB THEN {DIR_D, D_SUB} ELSE {path} \cap Dirs

\* '*' in path_str or '[' in path_str or '?' in path_str
HasGlobChars(path_str) == path_str = ID_JS

\* base_path.glob(path_str): "[id].js" is a character class, it matches i.js
GlobMatches(path_str) == IF path_str = ID_JS THEN {I_JS} ELSE {}

\* files below a directory (path_obj.rglob('*'))
FilesUnder(d) == IF d = DIR_D THEN {D_OK} ELSE {}

Absent == "<absent>"
NotLoaded == "<not loaded>"

(***************************************************************************)
(* Shell commands                                                          *)
(***************************************************************************)
\* self.terminal_launcher default
terminal_launcher == "konsole -e"

\* command.strip().startswith(self.terminal_launcher)
StartsWithLauncher(command) == command = TOP

\* lang.lower() in ['shell', 'bash', 'sh']
IsShellLang(lang) == lang \in {"shell", "bash", "sh"}

(***************************************************************************)
(* Responses                                                               *)
(***************************************************************************)
Entry(path, content) == [path |-> path, content |-> content]

\* captures of re.findall(r'<file path="(.*?)">(.*?)</file>', ...)
FilePool ==
    { Entry(A_PY, PADDED), Entry(A_PY, BAD), Entry(A_PY, FENCED),
      Entry(B_TXT, BAD), Entry(B_TXT, OKCR), Entry(B_TXT, EMPTY),
      Entry(DIR_D, EMPTY), Entry(DIR_D, OK1), Entry(DIR_D, SUBDIR),
      Entry(ID_JS, OK1), Entry(NO_PATH, OK1), Entry(OUTSIDE, OK1) }

\* captures of re.findall(r'<shell>(.*?)</shell>', ...)
CmdPool == {LS, LSPAD, TOP}

Block(lang, content) == [lang |-> lang, content |-> content]

\* captures of re.findall(r'```(\w*)?\n?(.*?)```', ...)
BlockPool ==
    { Block("bash", LS), Block("sh", TOP), Block("", OK1),
      Block("python", BAD), Block("python", EMPTY) }

NoTag == [present |-> FALSE, closed |-> FALSE, files |-> <<>>]
Tag(closed, files) == [present |-> TRUE, closed |-> closed, files |-> files]

Response(pcb, fmb, sh, cmds, blocks, prose) ==
    [project_creation |-> pcb, file_modifications |-> fmb, shell |-> sh,
     commands |-> cmds, blocks |-> blocks, prose |-> prose]

\* whitespace only
Blank == Response(NoTag, NoTag, FALSE, <<>>, <<>>, FALSE)

\* a <file_modifications> block names files
ModifyPool == {e \in FilePool : ~EndsWithSlash(e.path)}

\* a closed block with its entries, or an opening tag that is never closed
TagBodies(pool) == {Tag(TRUE, fs) : fs \in SeqsUpTo(pool, MaxEntries)} \cup {Tag(FALSE, <<>>)}

\* responses with one kind of directive
PlainResponses ==
    {Response(t, NoTag, FALSE, <<>>, <<>>, TRUE) : t \in TagBodies(FilePool)}
    \cup {Response(NoTag, t, FALSE, <<>>, <<>>, TRUE) : t \in TagBodies(ModifyPool)}
    \cup {Response(NoTag, NoTag, TRUE, cs, <<>>, TRUE) : cs \in SeqsUpTo(CmdPool, MaxCmds)}
    \cup {Response(NoTag, NoTag, FALSE, <<>>, bs, TRUE) : bs \in SeqsUpTo(BlockPool, MaxCmds)}

\* responses that carry several kinds of directive at once
MixedResponses ==
    { Response(IF p THEN Tag(TRUE, <<Entry(B_TXT, BAD)>>) ELSE NoTag,
               IF f THEN Tag(TRUE, <<Entry(A_PY, PADDED)>>) ELSE NoTag,
               s, IF s THEN <<LS>> ELSE <<>>,
               IF b THEN <<Block("", OK1)>> ELSE <<>>, TRUE)
        : p \in BOOLEAN, f \in BOOLEAN, s \in BOOLEAN, b \in BOOLEAN }

Responses == PlainResponses \cup MixedResponses \cup {Blank}

\* response.strip() is empty
IsBlank(response) == response = Blank

\* what a stream that broke off can have delivered: at most one directive
PartialResponses ==
    {r \in Responses :
        /\ Len(r.project_creation.files) <= 1
        /\ Len(r.file_modifications.files) <= 1
        /\ Len(r.commands) <= 1
        /\ Len(r.blocks) <= 1}

(***************************************************************************)
(* State                                                                   *)
(***************************************************************************)
VARIABLES
    pc,                     \* where the single thread of chat_loop stands
    turns,                  \* free-text inputs read so far
    disk,                   \* file -> bytes on disk, or Absent
    dirs,                   \* directories that exist below working_directory
    loaded_files,           \* self.loaded_files: file -> content, or NotLoaded
    response,               \* argument of process_response
    is_correction_attempt,  \* argument of process_response
    locals,                 \* local variables of the running handler
    correction,             \* arguments of the running _attempt_self_correction
    corrections,            \* calls of _attempt_self_correction in this turn
    generations,            \* calls of api.generate in this turn
    log,                    \* what happened since process_response was entered
    loaded_before           \* loaded_files when process_response was entered

vars == <<pc, turns, disk, dirs, loaded_files, response, is_correction_attempt,
          locals, correction, corrections, generations, log, loaded_before>>

NoCorrection == [file_path |-> "", invalid_code |-> "", caller |-> ""]

NoLocals ==
    [ processed_files |-> <<>>, created_paths |-> <<>>,
      files_to_modify |-> <<>>, cleaned_files_content |-> <<>>,
      diff_panels |-> <<>>, valid_modifications_count |-> 0,
      commands |-> <<>>, idx |-> 0,
      path |-> "", new_content |-> "" ]

E(ev, p, c, r) == [ev |-> ev, p |-> p, c |-> c, r |-> r]

Answers == {"yes", "no", "interrupt"}

\* Confirm.ask taken as True for every answer that is given
ConfirmedWhateverAnswer(answer) == answer # "interrupt"

\* Confirm.ask(...) returned True
Confirmed(answer) == answer = "yes"

(***************************************************************************)
(* FileHandler and load_file                                               *)
(***************************************************************************)
\* ok: written; fail: mkdir or open raised; truncated: open succeeded and
\* f.write raised, which leaves an empty file behind
WriteOutcomes == {"ok", "fail", "truncated"}

\* open(filepath, 'w') on the working directory itself raises IsADirectoryError
WriteOutcomesFor(path) == IF path = NO_PATH THEN {"fail"} ELSE WriteOutcomes

\* FileHandler.write_file(filepath, content)[0]
write_success(outcome) == outcome = "ok"

DiskAfterWrite(d, path, content, outcome) ==
    CASE outcome = "ok" -> [d EXCEPT ![path] = content]
      [] outcome = "truncated" -> [d EXCEPT ![path] = EMPTY]
      [] OTHER -> d

DirsAfterWrite(ds, path, outcome) ==
    IF outcome = "fail" THEN ds ELSE ds \cup ParentDirs(path)

\* FileHandler.read_file(filepath)
read_file(d, path) ==
    IF path \in Files /\ d[path] # Absent
    THEN [success |-> TRUE, content |-> ReadBack(d[path])]
    ELSE [success |-> FALSE, content |-> "error"]

\* files_to_load of load_file(path_str)
files_to_load(path_str, d, ds) ==
    IF HasGlobChars(path_str)
    THEN {f \in GlobMatches(path_str) : d[f] # Absent}
    ELSE IF path_str \in Files /\ d[path_str] # Absent THEN {path_str}
    ELSE IF path_str \in ds THEN {f \in FilesUnder(path_str) : d[f] # Absent}
    ELSE {}

\* self.loaded_files after load_file(path_str)
load_file(lf, path_str, d, ds) ==
    [f \in Files |->
        IF f \in files_to_load(path_str, d, ds) /\ read_file(d, f).success
        THEN read_file(d, f).content
        ELSE lf[f]]

\* for path_str in created_paths: self.load_file(path_str)
RECURSIVE load_created(_, _, _, _)
load_created(lf, paths, d, ds) ==
    IF paths = <<>> THEN lf
    ELSE load_created(load_file(lf, Head(paths), d, ds), Tail(paths), d, ds)

\* the keys of self.loaded_files
LoadedPaths(lf) == {f \in Files : lf[f] # NotLoaded}

(***************************************************************************)
(* Init: OllamaCLI.__init__, in a working directory that holds some files  *)
(***************************************************************************)
InitialDisks ==
    { [f \in Files |-> Absent],
      [f \in Files |-> CASE f = A_PY -> OK2 [] f = B_TXT -> BAD [] f = I_JS -> OK1 [] OTHER -> Absent] }

Init ==
    /\ pc = "prompt"
    /\ turns = 0
    /\ disk \in InitialDisks
    /\ dirs = {}
    /\ loaded_files = [f \in Files |-> NotLoaded]
    /\ response = Blank
    /\ is_correction_attempt = FALSE
    /\ locals = NoLocals
    /\ correction = NoCorrection
    /\ corrections = 0
    /\ generations = 0
    /\ log = <<>>
    /\ loaded_before = [f \in Files |-> NotLoaded]

(***************************************************************************)
(* chat_loop                                                               *)
(***************************************************************************)
\* arguments the user gives to /load
LoadArgs == {A_PY, B_TXT}

\* the handler returns to the prompt of chat_loop
Return(events) ==
    /\ pc' = "prompt"
    /\ locals' = NoLocals
    /\ log' = log \o events

\* KeyboardInterrupt: chat_loop's except clause turns it into break, unless it
\* passes the try block of the fallback creation (lines 923-958), which holds
\* the call of _attempt_self_correction and reports a cancellation
Break(events) ==
    /\ pc' = IF correction.caller = "fallback_create" THEN "prompt" ELSE "exited"
    /\ locals' = NoLocals
    /\ log' = log \o events
             \o (IF correction.caller = "fallback_create"
                 THEN <<E("panel", "cancelled", "", ""), E("clear", "", "", "")>>
                 ELSE <<>>)

\* session.prompt returned a line: what the previous turn left behind is over
NewInput ==
    /\ response' = Blank
    /\ is_correction_attempt' = FALSE
    /\ correction' = NoCorrection
    /\ corrections' = 0
    /\ generations' = 0
    /\ log' = <<>>
    /\ loaded_before' = loaded_files'

\* "/load <path>": handle_command calls load_file
LoadCommand ==
    /\ pc = "prompt"
    /\ \E path_str \in LoadArgs :
         loaded_files' = load_file(loaded_files, path_str, disk, dirs)
    /\ NewInput
    /\ UNCHANGED <<pc, turns, disk, dirs, locals>>

\* "/clear": clear_context
ClearCommand ==
    /\ pc = "prompt"
    /\ loaded_files' = [f \in Files |-> NotLoaded]
    /\ NewInput
    /\ UNCHANGED <<pc, turns, disk, dirs, locals>>

\* "/quit", or Ctrl-C / Ctrl-D at the prompt
Quit ==
    /\ pc = "prompt"
    /\ pc' = "exited"
    /\ UNCHANGED <<turns, disk, dirs, loaded_files, locals>>
    /\ NewInput

\* a free-text input: the prompt is built and api.generate is called
UserInput ==
    /\ pc = "prompt"
    /\ turns < MaxTurns
    /\ pc' = "generate"
    /\ turns' = turns + 1
    /\ UNCHANGED <<disk, dirs, loaded_files, locals>>
    /\ NewInput

\* done: the stream ended; api_error: generate caught a RequestException and
\* ended the stream; exception: another exception left the token loop;
\* interrupt: KeyboardInterrupt while streaming
GenOutcomes == {"done", "api_error", "exception", "interrupt"}

Delivered(outcome) == IF outcome = "done" THEN Responses ELSE PartialResponses

\* what a token loop leaves behind: the outcome of the stream, whether text had
\* arrived, and conversation_history.append({"role": "assistant", ...}) when
\* the text is kept
GenEvents(full_response, outcome, kept) ==
    <<E("generate", IF IsBlank(full_response) THEN "blank" ELSE "text", "", outcome)>>
    \o (IF kept THEN <<E("history", "assistant", "", "")>> ELSE <<>>)

\* chat_loop whose "except Exception" also caught a Ctrl-C in the token loop
GenerateCatchingInterrupt ==
    /\ pc = "generate"
    /\ generations' = generations + 1
    /\ \E outcome \in GenOutcomes, full_response \in Responses :
         /\ full_response \in Delivered(outcome)
         /\ log' = GenEvents(full_response, outcome, ~IsBlank(full_response))
         /\ IF IsBlank(full_response)
            THEN pc' = "prompt" /\ UNCHANGED response
            ELSE pc' = "process" /\ response' = full_response
    /\ is_correction_attempt' = FALSE
    /\ UNCHANGED <<turns, disk, dirs, loaded_files, locals, correction, corrections, loaded_before>>

\* the token loop of chat_loop and what follows it
Generate ==
    /\ pc = "generate"
    /\ generations' = generations + 1
    /\ \E outcome \in GenOutcomes, full_response \in Responses :
         /\ full_response \in Delivered(outcome)
         /\ log' = GenEvents(full_response, outcome,
                              outcome # "interrupt" /\ ~IsBlank(full_response))
         /\ IF outcome = "interrupt"
            THEN pc' = "exited" /\ UNCHANGED response
            ELSE IF IsBlank(full_response)
            THEN pc' = "prompt" /\ UNCHANGED response
            ELSE pc' = "process" /\ response' = full_response
    /\ is_correction_attempt' = FALSE
    /\ UNCHANGED <<turns, disk, dirs, loaded_files, locals, correction, corrections, loaded_before>>

(***************************************************************************)
(* process_response                                                        *)
(***************************************************************************)
\* process_response that tests '<file_modifications>' before '<project_creation>'
ProcessResponseModificationsFirst ==
    /\ pc = "process"
    /\ log' = log \o <<E("panel", "raw", "", ""), E("clear", "", "", "")>>
    /\ loaded_before' = loaded_files
    /\ pc' = IF response.file_modifications.present THEN "handle_file_modifications"
             ELSE IF response.project_creation.present THEN "handle_project_creation"
             ELSE IF response.shell THEN "handle_shell_execution"
             ELSE "handle_fallback_code_block"
    /\ UNCHANGED <<turns, disk, dirs, loaded_files, response, is_correction_attempt,
                   locals, correction, corrections, generations>>

ProcessResponse ==
    /\ pc = "process"
    /\ log' = log \o <<E("panel", "raw", "", ""), E("clear", "", "", "")>>
    /\ loaded_before' = loaded_files
    /\ pc' = IF response.project_creation.present THEN "handle_project_creation"
             ELSE IF response.file_modifications.present THEN "handle_file_modifications"
             ELSE IF response.shell THEN "handle_shell_execution"
             ELSE "handle_fallback_code_block"
    /\ UNCHANGED <<turns, disk, dirs, loaded_files, response, is_correction_attempt,
                   locals, correction, corrections, generations>>

(***************************************************************************)
(* handle_shell_execution and run_command                                  *)
(***************************************************************************)
\* the commands as captured, without strip()
StripNone(cmds) == cmds

\* [command.strip() for command in commands]
RECURSIVE StripAll(_)
StripAll(cmds) ==
    IF cmds = <<>> THEN <<>> ELSE <<Strip(Head(cmds))>> \o StripAll(Tail(cmds))

handle_shell_execution ==
    /\ pc = "handle_shell_execution"
    /\ LET cmds == response.commands IN
       IF cmds = <<>>
       THEN Return(<<>>)
       ELSE /\ pc' = "run_command"
            /\ locals' = [NoLocals EXCEPT !.commands = StripAll(cmds), !.idx = 1]
            /\ log' = log \o (IF Len(cmds) > 1
                              THEN <<E("panel", "multiple", "", ""), E("clear", "", "", "")>>
                              ELSE <<>>)
    /\ UNCHANGED <<turns, disk, dirs, loaded_files, response, is_correction_attempt,
                   correction, corrections, generations, loaded_before>>

\* launched: Popen returned; exit0 / nonzero: run returned that code and both
\* stdout and stderr are empty after strip(); exit0_output / nonzero_output:
\* run returned that code with some output; raised: the call raised
RunOutcomes(command) ==
    IF StartsWithLauncher(command) THEN {"launched", "raised"}
    ELSE {"exit0", "nonzero", "exit0_output", "nonzero_output", "raised"}

\* the panel that run_command appends for an outcome (lines 756, 763-783)
ReportOf(outcome) ==
    CASE outcome = "launched" -> "launched_in_terminal"
      [] outcome = "exit0" -> "success_no_output"
      [] outcome = "nonzero" -> "error_code_no_output"
      [] outcome = "exit0_output" -> "output_success_border"
      [] outcome = "nonzero_output" -> "output_error_border"
      [] OTHER -> "error"

\* run_command that waits for every command with subprocess.run
RunEventsAlwaysWaiting(command, answer, outcome) ==
    <<E("prompt", "run", command, answer)>>
    \o (IF Confirmed(answer)
        THEN <<E("run", "", command, outcome),
               E("panel", ReportOf(IF outcome = "launched" THEN "exit0" ELSE outcome),
                 command, "")>>
        ELSE <<E("panel", "cancelled", command, "")>>)
    \o <<E("clear", "", "", "")>>

\* run_command that starts the command whatever the answer
RunEventsUngated(command, answer, outcome) ==
    <<E("prompt", "run", command, answer),
      E(IF StartsWithLauncher(command) THEN "popen" ELSE "run", "", command, outcome),
      E("panel", ReportOf(outcome), command, ""),
      E("clear", "", "", "")>>

\* the events of run_command(command) from Confirm.ask on
RunEvents(command, answer, outcome) ==
    <<E("prompt", "run", command, answer)>>
    \o (IF Confirmed(answer)
        THEN <<E(IF StartsWithLauncher(command) THEN "popen" ELSE "run", "", command, outcome),
               E("panel", ReportOf(outcome), command, "")>>
        ELSE <<E("panel", "cancelled", command, "")>>)
    \o <<E("clear", "", "", "")>>

\* one pass of "for command in commands: self.run_command(command)"
run_command ==
    /\ pc = "run_command"
    /\ LET command == locals.commands[locals.idx] IN
       \E answer \in Answers, outcome \in RunOutcomes(command) :
         IF answer = "interrupt"
         THEN Break(<<E("prompt", "run", command, answer)>>)
         ELSE IF locals.idx < Len(locals.commands)
         THEN /\ pc' = "run_command"
              /\ locals' = [locals EXCEPT !.idx = @ + 1]
              /\ log' = log \o RunEvents(command, answer, outcome)
         ELSE Return(RunEvents(command, answer, outcome))
    /\ UNCHANGED <<turns, disk, dirs, loaded_files, response, is_correction_attempt,
                   correction, corrections, generations, loaded_before>>

(***************************************************************************)
(* _attempt_self_correction                                                *)
(***************************************************************************)
\* a handler that forgets to look at is_correction_attempt
after_invalid_always_offer(is_correction) == "offer"

\* what a handler does with a .py file that failed validation (lines 1084-1093,
\* 1140-1149, 933-943, 992-1002): report it for good, or offer a correction
after_invalid(is_correction) == IF is_correction THEN "report" ELSE "offer"

\* the call _attempt_self_correction(file_path, invalid_code, error_message)
\* up to the token loop; the caller returns as soon as it comes back
CallSelfCorrection(caller, file_path, invalid_code, events) ==
    /\ pc' = "correct"
    /\ correction' = [file_path |-> file_path, invalid_code |-> invalid_code,
                      caller |-> caller]
    /\ corrections' = corrections + 1
    /\ log' = log \o events
              \o <<E("correction_request", file_path, invalid_code, ""),
                   E("panel", "self_correction", file_path, ""), E("clear", "", "", "")>>

\* the token loop of _attempt_self_correction and what follows it
attempt_self_correction ==
    /\ pc = "correct"
    /\ generations' = generations + 1
    /\ \E outcome \in GenOutcomes, full_response \in Responses :
         /\ full_response \in Delivered(outcome)
         /\ CASE outcome = "interrupt" ->
                   Break(GenEvents(full_response, outcome, FALSE))
                   /\ UNCHANGED <<response, is_correction_attempt>>
              [] outcome = "exception" ->
                   Return(GenEvents(full_response, outcome, FALSE)
                          \o <<E("print", "error", "", "")>>)
                   /\ UNCHANGED <<response, is_correction_attempt>>
              [] OTHER ->
                   IF IsBlank(full_response)
                   THEN Return(GenEvents(full_response, outcome, FALSE))
                        /\ UNCHANGED <<response, is_correction_attempt>>
                   ELSE /\ pc' = "process"
                        /\ response' = full_response
                        /\ is_correction_attempt' = TRUE
                        /\ locals' = NoLocals
                        /\ log' = GenEvents(full_response, outcome, TRUE)
    /\ UNCHANGED <<turns, disk, dirs, loaded_files, correction, corrections, loaded_before>>

(***************************************************************************)
(* handle_project_creation                                                 *)
(***************************************************************************)
\* one entry of processed_files (lines 1047-1055)
ProcessedEntry(entry) ==
    LET path == Strip(entry.path)
        file_content == Strip(entry.content)
    IN IF EndsWithSlash(path) /\ file_content # EMPTY /\ ~HasNewline(file_content)
       THEN Entry(Concat(path, file_content), EMPTY)
       ELSE Entry(path, file_content)

RECURSIVE ProcessedFiles(_)
ProcessedFiles(files) ==
    IF files = <<>> THEN <<>>
    ELSE <<ProcessedEntry(Head(files))>> \o ProcessedFiles(Tail(files))

\* lines 1057-1060: one row of the table "Fichiers a creer" per entry
RECURSIVE TableRows(_)
TableRows(entries) ==
    IF entries = <<>> THEN <<>>
    ELSE <<E("row", Head(entries).path, Head(entries).content, "")>>
         \o TableRows(Tail(entries))

\* handle_project_creation without the "if not files: return" of line 1042
handle_project_creation_unguarded ==
    /\ pc = "handle_project_creation"
    /\ LET block == response.project_creation IN
       IF ~block.closed
       THEN Return(<<>>)
       ELSE /\ pc' = "create_confirm"
            /\ locals' = [NoLocals EXCEPT !.processed_files = ProcessedFiles(block.files)]
            /\ log' = log \o TableRows(ProcessedFiles(block.files))
                          \o <<E("clear", "", "", "")>>
    /\ UNCHANGED <<turns, disk, dirs, loaded_files, response, is_correction_attempt,
                   correction, corrections, generations, loaded_before>>

\* lines 1032-1061: parse, build processed_files, show the table
handle_project_creation ==
    /\ pc = "handle_project_creation"
    /\ LET block == response.project_creation IN
       IF ~block.closed
       THEN Return(<<>>)
       ELSE IF block.files = <<>>
       THEN Return(<<E("clear", "", "", "")>>)
       ELSE /\ pc' = "create_confirm"
            /\ locals' = [NoLocals EXCEPT !.processed_files = ProcessedFiles(block.files)]
            /\ log' = log \o TableRows(ProcessedFiles(block.files))
                          \o <<E("clear", "", "", "")>>
    /\ UNCHANGED <<turns, disk, dirs, loaded_files, response, is_correction_attempt,
                   correction, corrections, generations, loaded_before>>

\* line 1063: Confirm.ask("Creer ces N element(s) ?")
create_confirm ==
    /\ pc = "create_confirm"
    /\ \E answer \in Answers :
         CASE answer = "interrupt" ->
                Break(<<E("prompt", "create_batch", "", answer)>>)
           [] Confirmed(answer) ->
                /\ pc' = "create_loop"
                /\ locals' = [locals EXCEPT !.idx = 1]
                /\ log' = log \o <<E("prompt", "create_batch", "", answer)>>
           [] OTHER ->
                Return(<<E("prompt", "create_batch", "", answer),
                         E("print", "cancelled", "", ""), E("clear", "", "", "")>>)
    /\ UNCHANGED <<turns, disk, dirs, loaded_files, response, is_correction_attempt,
                   correction, corrections, generations, loaded_before>>

\* lines 1065-1098: one pass of the loop over processed_files
create_loop ==
    /\ pc = "create_loop"
    /\ locals.idx <= Len(locals.processed_files)
    /\ LET path == locals.processed_files[locals.idx].path
           file_content == locals.processed_files[locals.idx].content
           content_to_write == StripFence(file_content)
           next == [locals EXCEPT !.idx = @ + 1]
       IN
       IF EndsWithSlash(path)
       THEN \E outcome \in {"ok", "fail"} :
              /\ dirs' = IF outcome = "ok" THEN dirs \cup MkdirDirs(path) ELSE dirs
              /\ log' = log \o <<E("mkdir", path, "", outcome), E("print", outcome, path, "")>>
              /\ locals' = next
              /\ UNCHANGED <<pc, disk>>
       ELSE IF EndsWithPy(path) /\ ~is_valid_python(content_to_write)
       THEN /\ log' = log \o <<E("validate", path, content_to_write, "error")>>
                          \o (IF after_invalid(is_correction_attempt) = "report"
                              THEN <<E("panel", "correction_failed", path, "")>>
                              ELSE <<>>)
            /\ IF after_invalid(is_correction_attempt) = "report"
               THEN locals' = next /\ UNCHANGED pc
               ELSE pc' = "create_offer" /\ UNCHANGED locals
            /\ UNCHANGED <<disk, dirs>>
       ELSE \E outcome \in WriteOutcomesFor(path) :
              /\ disk' = DiskAfterWrite(disk, path, content_to_write, outcome)
              /\ dirs' = DirsAfterWrite(dirs, path, outcome)
              /\ log' = log
                   \o (IF EndsWithPy(path)
                       THEN <<E("validate", path, content_to_write, "ok")>> ELSE <<>>)
                   \o <<E("write", path, content_to_write, outcome),
                        E("print", outcome, path, "")>>
              /\ locals' = [next EXCEPT !.created_paths =
                              IF write_success(outcome) THEN Append(@, path) ELSE @]
              /\ UNCHANGED pc
    /\ UNCHANGED <<turns, loaded_files, response, is_correction_attempt,
                   correction, corrections, generations, loaded_before>>

\* line 1087: Confirm.ask("... Tenter une auto-correction ?")
create_offer ==
    /\ pc = "create_offer"
    /\ LET path == locals.processed_files[locals.idx].path
           content_to_write == StripFence(locals.processed_files[locals.idx].content)
       IN
       \E answer \in Answers :
         CASE answer = "interrupt" ->
                Break(<<E("prompt", "offer", path, answer)>>)
                /\ UNCHANGED <<correction, corrections>>
           [] Confirmed(answer) ->
                CallSelfCorrection("project_creation", path, content_to_write,
                                   <<E("prompt", "offer", path, answer)>>)
                /\ UNCHANGED locals
           [] OTHER ->
                /\ pc' = "create_loop"
                /\ locals' = [locals EXCEPT !.idx = @ + 1]
                /\ log' = log \o <<E("prompt", "offer", path, answer),
                                   E("panel", "rejected", path, "")>>
                /\ UNCHANGED <<correction, corrections>>
    /\ UNCHANGED <<turns, disk, dirs, loaded_files, response, is_correction_attempt,
                   generations, loaded_before>>

\* the created paths that load_file takes before one of them makes
\* relative_to raise (line 726)
RECURSIVE LoadablePrefix(_)
LoadablePrefix(paths) ==
    IF paths = <<>> \/ NotBelowBase(Head(paths)) THEN <<>>
    ELSE <<Head(paths)>> \o LoadablePrefix(Tail(paths))

\* lines 1100-1105: after the loop, load the created files; the ValueError of
\* load_file is caught nowhere and ends the program
create_finish ==
    /\ pc = "create_loop"
    /\ locals.idx > Len(locals.processed_files)
    /\ LET paths == locals.created_paths
           loadable == LoadablePrefix(paths)
           loading == IF paths # <<>> THEN <<E("print", "loading", "", "")>> ELSE <<>>
       IN /\ loaded_files' = load_created(loaded_files, loadable, disk, dirs)
          /\ IF loadable = paths
             THEN Return(loading \o <<E("clear", "", "", "")>>)
             ELSE /\ pc' = "exited"
                  /\ locals' = NoLocals
                  /\ log' = log \o loading
                       \o <<E("raise", "ValueError", paths[Len(loadable) + 1], "")>>
    /\ UNCHANGED <<turns, disk, dirs, response, is_correction_attempt,
                   correction, corrections, generations, loaded_before>>

(***************************************************************************)
(* handle_file_modifications                                               *)
(***************************************************************************)
\* cleaned_files_content[path] = new_content on an insertion-ordered dict
RECURSIVE DictSet(_, _, _)
DictSet(items, path, new_content) ==
    IF items = <<>> THEN <<Entry(path, new_content)>>
    ELSE IF Head(items).path = path THEN <<Entry(path, new_content)>> \o Tail(items)
    ELSE <<Head(items)>> \o DictSet(Tail(items), path, new_content)

\* lines 1154-1157: the original content the diff is computed against
OriginalContent(lf, d, path) ==
    IF path \in Files /\ lf[path] # NotLoaded THEN lf[path]
    ELSE IF read_file(d, path).success THEN read_file(d, path).content
    ELSE EMPTY

\* lines 1111-1127: parse
handle_file_modifications ==
    /\ pc = "handle_file_modifications"
    /\ LET block == response.file_modifications IN
       IF ~block.closed
       THEN Return(<<>>)
       ELSE IF block.files = <<>>
       THEN Return(<<E("clear", "", "", "")>>)
       ELSE /\ pc' = "modify_loop"
            /\ locals' = [NoLocals EXCEPT !.files_to_modify = block.files, !.idx = 1]
            /\ UNCHANGED log
    /\ UNCHANGED <<turns, disk, dirs, loaded_files, response, is_correction_attempt,
                   correction, corrections, generations, loaded_before>>

\* the loop over files_to_modify, dropping an entry whose diff is empty
modify_loop_skipping_unchanged ==
    /\ pc = "modify_loop"
    /\ locals.idx <= Len(locals.files_to_modify)
    /\ LET path == Strip(locals.files_to_modify[locals.idx].path)
           new_content == StripFence(Strip(locals.files_to_modify[locals.idx].content))
       IN
       IF EndsWithPy(path) /\ ~is_valid_python(new_content)
       THEN /\ log' = log \o <<E("validate", path, new_content, "error")>>
                          \o (IF after_invalid(is_correction_attempt) = "report"
                              THEN <<E("panel", "correction_failed", path, "")>>
                              ELSE <<>>)
            /\ IF after_invalid(is_correction_attempt) = "report"
               THEN locals' = [locals EXCEPT !.idx = @ + 1] /\ UNCHANGED pc
               ELSE pc' = "modify_offer" /\ UNCHANGED locals
       ELSE IF DiffText(OriginalContent(loaded_files, disk, path), new_content) = "empty"
       THEN /\ locals' = [locals EXCEPT !.idx = @ + 1]
            /\ UNCHANGED <<pc, log>>
       ELSE /\ locals' = [locals EXCEPT
                  !.idx = @ + 1,
                  !.cleaned_files_content = DictSet(@, path, new_content),
                  !.valid_modifications_count = @ + 1,
                  !.diff_panels = Append(@, Entry(path,
                        DiffText(OriginalContent(loaded_files, disk, path), new_content)))]
            /\ log' = log
                 \o (IF EndsWithPy(path)
                     THEN <<E("validate", path, new_content, "ok")>> ELSE <<>>)
                 \o <<E("diff", path, new_content,
                        DiffText(OriginalContent(loaded_files, disk, path), new_content))>>
            /\ UNCHANGED pc
    /\ UNCHANGED <<turns, disk, dirs, loaded_files, response, is_correction_attempt,
                   correction, corrections, generations, loaded_before>>

\* lines 1129-1166: one pass of the loop over files_to_modify
modify_loop ==
    /\ pc = "modify_loop"
    /\ locals.idx <= Len(locals.files_to_modify)
    /\ LET path == Strip(locals.files_to_modify[locals.idx].path)
           new_content == StripFence(Strip(locals.files_to_modify[locals.idx].content))
       IN
       IF EndsWithPy(path) /\ ~is_valid_python(new_content)
       THEN /\ log' = log \o <<E("validate", path, new_content, "error")>>
                          \o (IF after_invalid(is_correction_attempt) = "report"
                              THEN <<E("panel", "correction_failed", path, "")>>
                              ELSE <<>>)
            /\ IF after_invalid(is_correction_attempt) = "report"
               THEN locals' = [locals EXCEPT !.idx = @ + 1] /\ UNCHANGED pc
               ELSE pc' = "modify_offer" /\ UNCHANGED locals
       ELSE /\ locals' = [locals EXCEPT
                  !.idx = @ + 1,
                  !.cleaned_files_content = DictSet(@, path, new_content),
                  !.valid_modifications_count = @ + 1,
                  !.diff_panels = Append(@, Entry(path,
                        DiffText(OriginalContent(loaded_files, disk, path), new_content)))]
            /\ log' = log
                 \o (IF EndsWithPy(path)
                     THEN <<E("validate", path, new_content, "ok")>> ELSE <<>>)
                 \o <<E("diff", path, new_content,
                        DiffText(OriginalContent(loaded_files, disk, path), new_content))>>
            /\ UNCHANGED pc
    /\ UNCHANGED <<turns, disk, dirs, loaded_files, response, is_correction_attempt,
                   correction, corrections, generations, loaded_before>>

\* line 1143: Confirm.ask("... Tenter une auto-correction ?")
modify_offer ==
    /\ pc = "modify_offer"
    /\ LET path == Strip(locals.files_to_modify[locals.idx].path)
           new_content == StripFence(Strip(locals.files_to_modify[locals.idx].content))
       IN
       \E answer \in Answers :
         CASE answer = "interrupt" ->
                Break(<<E("prompt", "offer", path, answer)>>)
                /\ UNCHANGED <<correction, corrections>>
           [] Confirmed(answer) ->
                CallSelfCorrection("file_modifications", path, new_content,
                                   <<E("prompt", "offer", path, answer)>>)
                /\ UNCHANGED locals
           [] OTHER ->
                /\ pc' = "modify_loop"
                /\ locals' = [locals EXCEPT !.idx = @ + 1]
                /\ log' = log \o <<E("prompt", "offer", path, answer),
                                   E("panel", "rejected", path, "")>>
                /\ UNCHANGED <<correction, corrections>>
    /\ UNCHANGED <<turns, disk, dirs, loaded_files, response, is_correction_attempt,
                   generations, loaded_before>>

\* after the loop, apply the diffs without asking
modify_show_unasked ==
    /\ pc = "modify_loop"
    /\ locals.idx > Len(locals.files_to_modify)
    /\ IF locals.diff_panels = <<>>
       THEN Return(<<E("clear", "", "", "")>>)
       ELSE /\ pc' = "modify_apply"
            /\ log' = log \o <<E("panel", "diffs", "", ""), E("clear", "", "", "")>>
            /\ locals' = [locals EXCEPT !.idx = 1]
    /\ UNCHANGED <<turns, disk, dirs, loaded_files, response, is_correction_attempt,
                   correction, corrections, generations, loaded_before>>

\* lines 1168-1173: after the loop, show the diffs or give up
modify_show ==
    /\ pc = "modify_loop"
    /\ locals.idx > Len(locals.files_to_modify)
    /\ IF locals.diff_panels = <<>>
       THEN Return(<<E("clear", "", "", "")>>)
       ELSE /\ pc' = "modify_confirm"
            /\ log' = log \o <<E("panel", "diffs", "", ""), E("clear", "", "", "")>>
            /\ UNCHANGED locals
    /\ UNCHANGED <<turns, disk, dirs, loaded_files, response, is_correction_attempt,
                   correction, corrections, generations, loaded_before>>

\* line 1175: Confirm.ask("Appliquer ces N modification(s) valide(s) ?")
modify_confirm ==
    /\ pc = "modify_confirm"
    /\ \E answer \in Answers :
         CASE answer = "interrupt" ->
                Break(<<E("prompt", "modify_batch", "", answer)>>)
           [] Confirmed(answer) ->
                /\ pc' = "modify_apply"
                /\ locals' = [locals EXCEPT !.idx = 1]
                /\ log' = log \o <<E("prompt", "modify_batch", "", answer)>>
           [] OTHER ->
                Return(<<E("prompt", "modify_batch", "", answer),
                         E("print", "cancelled", "", ""), E("clear", "", "", "")>>)
    /\ UNCHANGED <<turns, disk, dirs, loaded_files, response, is_correction_attempt,
                   correction, corrections, generations, loaded_before>>

\* lines 1176-1181: one pass of the loop over cleaned_files_content.items()
modify_apply ==
    /\ pc = "modify_apply"
    /\ locals.idx <= Len(locals.cleaned_files_content)
    /\ LET path == locals.cleaned_files_content[locals.idx].path
           new_content == locals.cleaned_files_content[locals.idx].content
       IN
       \E outcome \in WriteOutcomesFor(path) :
         /\ disk' = DiskAfterWrite(disk, path, new_content, outcome)
         /\ dirs' = DirsAfterWrite(dirs, path, outcome)
         /\ loaded_files' = IF write_success(outcome)
                            THEN [loaded_files EXCEPT ![path] = new_content]
                            ELSE loaded_files
         /\ log' = log \o <<E("write", path, new_content, outcome),
                            E("print", outcome, path, "")>>
         /\ locals' = [locals EXCEPT !.idx = @ + 1]
    /\ UNCHANGED <<pc, turns, response, is_correction_attempt,
                   correction, corrections, generations, loaded_before>>

\* line 1182: after the loop
modify_finish ==
    /\ pc = "modify_apply"
    /\ locals.idx > Len(locals.cleaned_files_content)
    /\ Return(<<E("clear", "", "", "")>>)
    /\ UNCHANGED <<turns, disk, dirs, loaded_files, response, is_correction_attempt,
                   correction, corrections, generations, loaded_before>>

(***************************************************************************)
(* handle_fallback_code_block                                              *)
(***************************************************************************)
\* is_all_shell decided by the tag of the first block alone
is_all_shell_first_block(code_blocks) ==
    code_blocks = <<>> \/ IsShellLang(code_blocks[1].lang)

\* lines 884-894: is_all_shell after the loop over code_blocks
RECURSIVE is_all_shell(_)
is_all_shell(code_blocks) ==
    IF code_blocks = <<>> THEN TRUE
    ELSE IF Strip(Head(code_blocks).content) = EMPTY THEN is_all_shell(Tail(code_blocks))
    ELSE IF IsShellLang(Head(code_blocks).lang) THEN is_all_shell(Tail(code_blocks))
    ELSE FALSE

\* lines 884-894: shell_commands after the loop over code_blocks
RECURSIVE shell_commands(_)
shell_commands(code_blocks) ==
    IF code_blocks = <<>> THEN <<>>
    ELSE IF Strip(Head(code_blocks).content) = EMPTY THEN shell_commands(Tail(code_blocks))
    ELSE IF IsShellLang(Head(code_blocks).lang)
         THEN <<Strip(Head(code_blocks).content)>> \o shell_commands(Tail(code_blocks))
    ELSE <<>>

\* file names the user types at the "Entrez un nom de fichier" prompt
FileNames == {A_PY, B_TXT}

\* a fallback that asks for the confirmation without validating .py content
FallbackUnvalidated(kind, path, new_content, events) ==
    /\ pc' = IF kind = "create" THEN "fallback_create_confirm"
             ELSE "fallback_modify_confirm"
    /\ locals' = [NoLocals EXCEPT !.path = path, !.new_content = new_content]
    /\ log' = log \o events

\* line 1004: self.loaded_files.get(path_to_modify, "")
FallbackOriginal(lf, path) ==
    IF path \in Files /\ lf[path] # NotLoaded THEN lf[path] ELSE EMPTY

\* lines 989-1017 (and 930-943 for a creation): validate new_content for path;
\* an invalid .py file ends the handler or leads to the correction offer,
\* anything else leads to the confirmation
FallbackValidate(kind, path, new_content, events) ==
    IF EndsWithPy(path) /\ ~is_valid_python(new_content)
    THEN IF after_invalid(is_correction_attempt) = "report"
         THEN Return(events \o <<E("validate", path, new_content, "error"),
                                 E("panel", "correction_failed", path, ""),
                                 E("clear", "", "", "")>>)
         ELSE /\ pc' = IF kind = "create" THEN "fallback_create_offer"
                       ELSE "fallback_modify_offer"
              /\ locals' = [NoLocals EXCEPT !.path = path, !.new_content = new_content]
              /\ log' = log \o events \o <<E("validate", path, new_content, "error")>>
    ELSE /\ pc' = IF kind = "create" THEN "fallback_create_confirm"
                  ELSE "fallback_modify_confirm"
         /\ locals' = [NoLocals EXCEPT !.path = path, !.new_content = new_content]
         /\ log' = log \o events
                   \o (IF EndsWithPy(path)
                       THEN <<E("validate", path, new_content, "ok")>> ELSE <<>>)
                   \o (IF kind = "modify"
                       THEN <<E("diff", path, new_content,
                                DiffText(FallbackOriginal(loaded_files, path), new_content)),
                              E("clear", "", "", "")>>
                       ELSE <<>>)

\* the fallback that takes the first loaded file whenever files are loaded
handle_fallback_code_block_first_loaded ==
    /\ pc = "handle_fallback_code_block"
    /\ LET code_blocks == response.blocks
           new_content == Strip(code_blocks[1].content)
       IN
       IF code_blocks = <<>>
       THEN Return(<<>>)
       ELSE IF is_all_shell(code_blocks) /\ shell_commands(code_blocks) # <<>>
       THEN /\ pc' = "run_command"
            /\ locals' = [NoLocals EXCEPT !.commands = shell_commands(code_blocks), !.idx = 1]
            /\ log' = log \o <<E("panel", "fallback_shell", "", ""), E("clear", "", "", "")>>
       ELSE IF new_content = EMPTY
       THEN Return(<<>>)
       ELSE IF LoadedPaths(loaded_files) = {}
       THEN /\ pc' = "fallback_filename"
            /\ locals' = [NoLocals EXCEPT !.new_content = new_content]
            /\ log' = log \o <<E("panel", "proposal", "", ""), E("clear", "", "", "")>>
       ELSE IF Cardinality(LoadedPaths(loaded_files)) >= 1
       THEN FallbackValidate("modify", CHOOSE f \in LoadedPaths(loaded_files) : TRUE,
                             new_content, <<>>)
       ELSE /\ pc' = "fallback_select"
            /\ locals' = [NoLocals EXCEPT !.new_content = new_content]
            /\ log' = log \o <<E("panel", "which_file", "", ""), E("clear", "", "", "")>>
    /\ UNCHANGED <<turns, disk, dirs, loaded_files, response, is_correction_attempt,
                   correction, corrections, generations, loaded_before>>

\* lines 880-973: up to the first prompt
handle_fallback_code_block ==
    /\ pc = "handle_fallback_code_block"
    /\ LET code_blocks == response.blocks
           new_content == Strip(code_blocks[1].content)
       IN
       IF code_blocks = <<>>
       THEN Return(<<>>)
       ELSE IF is_all_shell(code_blocks) /\ shell_commands(code_blocks) # <<>>
       THEN /\ pc' = "run_command"
            /\ locals' = [NoLocals EXCEPT !.commands = shell_commands(code_blocks), !.idx = 1]
            /\ log' = log \o <<E("panel", "fallback_shell", "", ""), E("clear", "", "", "")>>
       ELSE IF new_content = EMPTY
       THEN Return(<<>>)
       ELSE IF LoadedPaths(loaded_files) = {}
       THEN /\ pc' = "fallback_filename"
            /\ locals' = [NoLocals EXCEPT !.new_content = new_content]
            /\ log' = log \o <<E("panel", "proposal", "", ""), E("clear", "", "", "")>>
       ELSE IF Cardinality(LoadedPaths(loaded_files)) = 1
       THEN FallbackValidate("modify", CHOOSE f \in LoadedPaths(loaded_files) : TRUE,
                             new_content, <<>>)
       ELSE /\ pc' = "fallback_select"
            /\ locals' = [NoLocals EXCEPT !.new_content = new_content]
            /\ log' = log \o <<E("panel", "which_file", "", ""), E("clear", "", "", "")>>
    /\ UNCHANGED <<turns, disk, dirs, loaded_files, response, is_correction_attempt,
                   correction, corrections, generations, loaded_before>>

\* lines 923-943: Prompt.ask for a file name; "" is an empty answer
fallback_filename ==
    /\ pc = "fallback_filename"
    /\ \E filename \in FileNames \cup {"", "interrupt"} :
         IF filename \in {"", "interrupt"}
         THEN Return(<<E("prompt", "filename", "", filename),
                       E("panel", "cancelled", "", ""), E("clear", "", "", "")>>)
         ELSE FallbackValidate("create", filename, locals.new_content,
                               <<E("prompt", "filename", filename, "given")>>)
    /\ UNCHANGED <<turns, disk, dirs, loaded_files, response, is_correction_attempt,
                   correction, corrections, generations, loaded_before>>

\* lines 974-984: Prompt.ask for one of the loaded files; "" is Enter
fallback_select ==
    /\ pc = "fallback_select"
    /\ \E choice \in LoadedPaths(loaded_files) \cup {"", "interrupt"} :
         IF choice \in {"", "interrupt"}
         THEN Return(<<E("prompt", "select", "", choice),
                       E("panel", "cancelled", "", ""), E("clear", "", "", "")>>)
         ELSE FallbackValidate("modify", choice, locals.new_content,
                               <<E("prompt", "select", choice, "given")>>)
    /\ UNCHANGED <<turns, disk, dirs, loaded_files, response, is_correction_attempt,
                   correction, corrections, generations, loaded_before>>

\* line 936: the correction offer of a creation, inside the try block
fallback_create_offer ==
    /\ pc = "fallback_create_offer"
    /\ \E answer \in Answers :
         CASE answer = "interrupt" ->
                Return(<<E("prompt", "offer", locals.path, answer),
                         E("panel", "cancelled", "", ""), E("clear", "", "", "")>>)
                /\ UNCHANGED <<correction, corrections>>
           [] Confirmed(answer) ->
                CallSelfCorrection("fallback_create", locals.path, locals.new_content,
                                   <<E("prompt", "offer", locals.path, answer)>>)
                /\ UNCHANGED locals
           [] OTHER ->
                Return(<<E("prompt", "offer", locals.path, answer),
                         E("panel", "rejected", locals.path, ""), E("clear", "", "", "")>>)
                /\ UNCHANGED <<correction, corrections>>
    /\ UNCHANGED <<turns, disk, dirs, loaded_files, response, is_correction_attempt,
                   generations, loaded_before>>

\* lines 945-958: confirm, write and load the created file
fallback_create_confirm ==
    /\ pc = "fallback_create_confirm"
    /\ \E answer \in Answers, outcome \in WriteOutcomes :
         IF Confirmed(answer)
         THEN /\ disk' = DiskAfterWrite(disk, locals.path, locals.new_content, outcome)
              /\ dirs' = DirsAfterWrite(dirs, locals.path, outcome)
              /\ loaded_files' =
                    IF write_success(outcome)
                    THEN load_file(loaded_files, locals.path, disk', dirs')
                    ELSE loaded_files
              /\ Return(<<E("prompt", "create", locals.path, answer),
                          E("write", locals.path, locals.new_content, outcome),
                          E("print", outcome, locals.path, ""), E("clear", "", "", "")>>)
         ELSE /\ Return(<<E("prompt", "create", locals.path, answer),
                          E("panel", "cancelled", "", ""), E("clear", "", "", "")>>)
              /\ UNCHANGED <<disk, dirs, loaded_files>>
    /\ UNCHANGED <<turns, response, is_correction_attempt,
                   correction, corrections, generations, loaded_before>>

\* line 995: the correction offer of a modification
fallback_modify_offer ==
    /\ pc = "fallback_modify_offer"
    /\ \E answer \in Answers :
         CASE answer = "interrupt" ->
                Break(<<E("prompt", "offer", locals.path, answer)>>)
                /\ UNCHANGED <<correction, corrections>>
           [] Confirmed(answer) ->
                CallSelfCorrection("fallback_modify", locals.path, locals.new_content,
                                   <<E("prompt", "offer", locals.path, answer)>>)
                /\ UNCHANGED locals
           [] OTHER ->
                Return(<<E("prompt", "offer", locals.path, answer),
                         E("panel", "rejected", locals.path, ""), E("clear", "", "", "")>>)
                /\ UNCHANGED <<correction, corrections>>
    /\ UNCHANGED <<turns, disk, dirs, loaded_files, response, is_correction_attempt,
                   generations, loaded_before>>

\* lines 1019-1028: confirm and write the modification
fallback_modify_confirm ==
    /\ pc = "fallback_modify_confirm"
    /\ \E answer \in Answers, outcome \in WriteOutcomes :
         CASE answer = "interrupt" ->
                Break(<<E("prompt", "modify", locals.path, answer)>>)
                /\ UNCHANGED <<disk, dirs, loaded_files>>
           [] Confirmed(answer) ->
                /\ disk' = DiskAfterWrite(disk, locals.path, locals.new_content, outcome)
                /\ dirs' = DirsAfterWrite(dirs, locals.path, outcome)
                /\ loaded_files' =
                      IF write_success(outcome)
                      THEN [loaded_files EXCEPT ![locals.path] = locals.new_content]
                      ELSE loaded_files
                /\ Return(<<E("prompt", "modify", locals.path, answer),
                            E("write", locals.path, locals.new_content, outcome),
                            E("print", outcome, locals.path, ""), E("clear", "", "", "")>>)
           [] OTHER ->
                Return(<<E("prompt", "modify", locals.path, answer),
                         E("print", "cancelled", "", ""), E("clear", "", "", "")>>)
                /\ UNCHANGED <<disk, dirs, loaded_files>>
    /\ UNCHANGED <<turns, response, is_correction_attempt,
                   correction, corrections, generations, loaded_before>>

Next ==
    \/ LoadCommand
    \/ ClearCommand
    \/ Quit
    \/ UserInput
    \/ Generate
    \/ ProcessResponse
    \/ handle_shell_execution
    \/ run_command
    \/ attempt_self_correction
    \/ handle_project_creation
    \/ create_confirm
    \/ create_loop
    \/ create_offer
    \/ create_finish
    \/ handle_file_modifications
    \/ modify_loop
    \/ modify_offer
    \/ modify_show
    \/ modify_confirm
    \/ modify_apply
    \/ modify_finish
    \/ handle_fallback_code_block
    \/ fallback_filename
    \/ fallback_select
    \/ fallback_create_offer
    \/ fallback_create_confirm
    \/ fallback_modify_offer
    \/ fallback_modify_confirm

Spec == Init /\ [][Next]_vars

\* chat_loop runs in a single thread that is never suspended: whenever a step
\* of the program is possible, one is taken
LiveSpec == Init /\ [][Next]_vars /\ WF_vars(Next)

(***************************************************************************)
(* Reading the log                                                         *)
(***************************************************************************)
Mutations == {"write", "mkdir", "run", "popen"}
FileMutations == {"write", "mkdir"}
BatchPrompts == {"create_batch", "modify_batch"}
ApplyPrompts == {"create_batch", "modify_batch", "create", "modify"}

IsPrompt(e, kinds) == e.ev = "prompt" /\ e.p \in kinds

\* the directive shown in a table row or in a diff panel passes validation
ShownValid(e) == ~(EndsWithPy(e.p) /\ ~CompilesAsPython(StripFence(e.c)))

\* the prompt log[j] was answered yes and covers the mutation log[k]
CoveredBy(j, k) ==
    /\ log[j].ev = "prompt"
    /\ log[j].r = "yes"
    /\ CASE log[j].p = "create_batch" ->
              /\ log[k].ev \in FileMutations
              /\ \E i \in 1..(j - 1) :
                    /\ log[i].ev = "row"
                    /\ log[i].p = log[k].p
                    /\ log[k].ev = "mkdir" \/ log[k].c = StripFence(log[i].c)
         [] log[j].p = "modify_batch" ->
              /\ log[k].ev = "write"
              /\ \E i \in 1..(j - 1) :
                    log[i].ev = "diff" /\ log[i].p = log[k].p /\ log[i].c = log[k].c
         [] log[j].p \in {"create", "modify"} ->
              log[k].ev = "write" /\ j = k - 1 /\ log[j].c = log[k].p
         [] log[j].p = "run" ->
              log[k].ev \in {"run", "popen"} /\ j = k - 1 /\ log[j].c = log[k].c
         [] OTHER -> FALSE

\* the handler of the response has returned to chat_loop
Done == pc = "prompt" /\ log # <<>>

\* process_response dispatches the response to handle_file_modifications
ModifyDispatched(r) == ~r.project_creation.present /\ r.file_modifications.present

\* process_response dispatches the response to handle_shell_execution
ShellDispatched(r) ==
    ~r.project_creation.present /\ ~r.file_modifications.present /\ r.shell

\* the <file_modifications> block holds a .py file that does not compile
InvalidPyModification(r) ==
    /\ ModifyDispatched(r)
    /\ \E i \in DOMAIN r.file_modifications.files :
          LET e == r.file_modifications.files[i] IN
          EndsWithPy(Strip(e.path)) /\ ~CompilesAsPython(StripFence(Strip(e.content)))

(***************************************************************************)
(* C1: every write_file, mkdir and shell start in the log of a response    *)
(* follows a confirmation prompt that covers it and was answered yes.      *)
(***************************************************************************)
C1_MutationsConfirmed ==
    \A k \in DOMAIN log :
        log[k].ev \in Mutations => \E j \in 1..(k - 1) : CoveredBy(j, k)

\* a file was written while the regenerated response of a correction round
\* was processed
C1_Witness ==
    /\ is_correction_attempt
    /\ \E k \in DOMAIN log : log[k].ev = "write" /\ log[k].r = "ok"

(***************************************************************************)
(* C2: _attempt_self_correction is called at most once per user turn; no   *)
(* response processed with is_correction_attempt=True offers or requests   *)
(* a correction; at most two generations happen per turn.                  *)
(***************************************************************************)
C2_AtMostOneCorrection ==
    /\ corrections <= 1
    /\ generations <= 2
    /\ is_correction_attempt =>
          /\ pc \notin {"correct", "create_offer", "modify_offer",
                        "fallback_create_offer", "fallback_modify_offer"}
          /\ \A k \in DOMAIN log : log[k].ev # "correction_request"
                                   /\ ~IsPrompt(log[k], {"offer"})

\* the regenerated response failed validation again and the turn is over
C2_Witness ==
    /\ Done
    /\ is_correction_attempt
    /\ generations = 2
    /\ \E k \in DOMAIN log : log[k].ev = "validate" /\ log[k].r = "error"

(***************************************************************************)
(* C3: when a confirmation prompt for file directives is asked, every .py  *)
(* file it covers has passed the syntax validator.                         *)
(***************************************************************************)
C3_ValidatedBeforeConfirmation ==
    \A j \in DOMAIN log :
        IsPrompt(log[j], ApplyPrompts) =>
            /\ \A i \in 1..(j - 1) :
                  (log[i].ev \in {"row", "diff"} /\ EndsWithPy(log[i].p)) =>
                      \E v \in 1..(j - 1) :
                          /\ log[v].ev = "validate"
                          /\ log[v].p = log[i].p
                          /\ log[v].c = StripFence(log[i].c)
                          /\ log[v].r = "ok"
            /\ (log[j].p \in {"create", "modify"} /\ EndsWithPy(log[j].c)) =>
                  \E v \in 1..(j - 1) :
                      log[v].ev = "validate" /\ log[v].p = log[j].c /\ log[v].r = "ok"

(***************************************************************************)
(* C4: once the handler of an accepted batch has returned, every directive *)
(* of the batch that passes validation has had its write or mkdir          *)
(* attempted, whatever was answered to a self-correction offer.            *)
(***************************************************************************)
C4_ValidDirectivesApplied ==
    (pc \in {"prompt", "correct"}) =>
        \A j \in DOMAIN log :
            (IsPrompt(log[j], BatchPrompts) /\ log[j].r = "yes") =>
                \A i \in 1..(j - 1) :
                    (log[i].ev \in {"row", "diff"} /\ ShownValid(log[i])) =>
                        \E k \in (j + 1)..Len(log) :
                            log[k].ev \in FileMutations /\ log[k].p = log[i].p

(***************************************************************************)
(* C5: when a correction is requested for one directive of a batch, every  *)
(* other valid directive of that batch has been through the batch          *)
(* confirmation and, if the batch was accepted, has been applied (the      *)
(* handler returns as soon as _attempt_self_correction comes back).        *)
(***************************************************************************)
C5_OthersUnaffected ==
    (pc = "correct" /\ correction.caller \in {"project_creation", "file_modifications"}) =>
        LET entries == IF correction.caller = "project_creation"
                       THEN locals.processed_files ELSE locals.files_to_modify
        IN \A i \in DOMAIN entries \ {locals.idx} :
              ShownValid(E("row", Strip(entries[i].path), Strip(entries[i].content), "")) =>
                  \E j \in DOMAIN log :
                      /\ IsPrompt(log[j], BatchPrompts)
                      /\ log[j].r = "yes" =>
                            \E k \in (j + 1)..Len(log) :
                                /\ log[k].ev \in FileMutations
                                /\ log[k].p = Strip(entries[i].path)

(***************************************************************************)
(* C6: after a declined confirmation of a project creation, a file         *)
(* modification batch or a fallback proposal, the log of the response      *)
(* holds no write_file and no mkdir, and loaded_files is what it was when  *)
(* process_response was entered.                                           *)
(***************************************************************************)
C6_DeclineIsNoOp ==
    (\E j \in DOMAIN log : IsPrompt(log[j], ApplyPrompts) /\ log[j].r = "no") =>
        /\ \A k \in DOMAIN log : log[k].ev \notin FileMutations
        /\ loaded_files = loaded_before

\* a modification batch was declined after a diff against a file that was
\* read from disk, with another file loaded
C6_Witness ==
    /\ Done
    /\ LoadedPaths(loaded_files) # {}
    /\ \E j \in DOMAIN log : IsPrompt(log[j], {"modify_batch"}) /\ log[j].r = "no"
    /\ \E i \in DOMAIN log :
          /\ log[i].ev = "diff"
          /\ log[i].p \in Files
          /\ loaded_files[log[i].p] = NotLoaded
          /\ disk[log[i].p] # Absent

(***************************************************************************)
(* C7: an entry of loaded_files differs from what it was when              *)
(* process_response was entered only if write_file succeeded for that path *)
(* with exactly the stored content.                                        *)
(***************************************************************************)
C7_LoadedOnlyAfterWrite ==
    \A f \in Files :
        loaded_files[f] # loaded_before[f] =>
            \E k \in DOMAIN log :
                /\ log[k].ev = "write"
                /\ log[k].p = f
                /\ log[k].r = "ok"
                /\ log[k].c = loaded_files[f]

(***************************************************************************)
(* C8 as stated: once a <file_modifications> block with an invalid .py     *)
(* file has been handled, exactly one correction request has been sent;    *)
(* and when the regenerated response fails validation for the same file,   *)
(* the failure is reported, the file is not written and no further request *)
(* is made.                                                                *)
(***************************************************************************)
\* the offers of a self-correction that the user accepted
AcceptedOffers == {k \in DOMAIN log : IsPrompt(log[k], {"offer"}) /\ log[k].r = "yes"}

\* the regenerated response failed validation for the file under correction
FailedAgain ==
    /\ is_correction_attempt
    /\ correction.caller = "file_modifications"
    /\ \E v \in DOMAIN log :
          log[v].ev = "validate" /\ log[v].p = correction.file_path /\ log[v].r = "error"

\* a 'correction failed' panel for the file is on the refreshed screen
FailureReported ==
    \E k \in DOMAIN log :
        /\ log[k] = E("panel", "correction_failed", correction.file_path, "")
        /\ \E m \in (k + 1)..Len(log) : log[m].ev = "clear"

C8_ExactlyOneRequest ==
    /\ (Done /\ ~is_correction_attempt /\ InvalidPyModification(response)) =>
          corrections = 1
    /\ (Done /\ FailedAgain) =>
          /\ FailureReported
          /\ \A k \in DOMAIN log :
                ~(log[k].ev = "write" /\ log[k].p = correction.file_path)
          /\ corrections = 1

(***************************************************************************)
(* C8 amended: validation fails and a self-correction is offered; one      *)
(* correction request is sent if the user accepts an offer and none if     *)
(* every offer is declined; when the regenerated response fails validation *)
(* for the same file, the failure is reported, the failing content is not  *)
(* written and no further offer or request is made.                        *)
(***************************************************************************)
C8_OneRequestIfAccepted ==
    /\ ~is_correction_attempt => corrections = Cardinality(AcceptedOffers)
    /\ corrections <= 1
    /\ (Done /\ ~is_correction_attempt /\ InvalidPyModification(response)) =>
          /\ \E v \in DOMAIN log : log[v].ev = "validate" /\ log[v].r = "error"
          /\ \E k \in DOMAIN log : IsPrompt(log[k], {"offer"})
    /\ FailedAgain =>
          /\ corrections = 1
          /\ AcceptedOffers = {}
          /\ \A k \in DOMAIN log :
                (log[k].ev = "write" /\ log[k].p = correction.file_path) =>
                    CompilesAsPython(log[k].c)
    /\ (Done /\ FailedAgain) => FailureReported

\* the regenerated <file_modifications> block failed again and was reported
C8_Witness ==
    /\ Done
    /\ FailedAgain
    /\ ModifyDispatched(response)
    /\ FailureReported

(***************************************************************************)
(* C9 as stated: the content that a regenerated <file_modifications> block *)
(* holds for the file under correction is written without any user prompt  *)
(* after the regenerated response arrived.                                 *)
(***************************************************************************)
\* a regenerated response is being handled for a file of a <file_modifications> block
Regenerated == is_correction_attempt /\ correction.caller = "file_modifications"

C9_WrittenWithoutPrompt ==
    (Regenerated /\ ModifyDispatched(response)) =>
        \A k \in DOMAIN log :
            (log[k].ev = "write" /\ log[k].p = correction.file_path) =>
                \A j \in 1..(k - 1) : log[j].ev # "prompt"

(***************************************************************************)
(* C9 amended: the regenerated valid content is proposed in the batch      *)
(* confirmation of the regenerated response, with no further correction    *)
(* offer, and it is written only after the user accepted a confirmation    *)
(* prompt that covers it.                                                  *)
(***************************************************************************)
C9_WrittenAfterNewConfirmation ==
    Regenerated =>
        /\ \A k \in DOMAIN log :
              (log[k].ev = "write" /\ log[k].p = correction.file_path) =>
                  /\ \E j \in 1..(k - 1) : CoveredBy(j, k)
                  /\ \A j \in DOMAIN log : ~IsPrompt(log[j], {"offer"})
        /\ (Done /\ ModifyDispatched(response)
                 /\ \E v \in DOMAIN log :
                       /\ log[v].ev = "validate"
                       /\ log[v].p = correction.file_path
                       /\ log[v].r = "ok") =>
              \E j \in DOMAIN log : IsPrompt(log[j], {"modify_batch"})

\* the corrected file was written from a regenerated <file_modifications> block
C9_Witness ==
    /\ Regenerated
    /\ ModifyDispatched(response)
    /\ \E k \in DOMAIN log :
          log[k].ev = "write" /\ log[k].p = correction.file_path /\ log[k].r = "ok"

(***************************************************************************)
(* C10: the commands of the <shell> tags are offered one at a time, in     *)
(* textual order, each stripped and each with its own confirmation; a      *)
(* confirmed command is started right after its prompt; a declined or      *)
(* failed command does not keep the later ones from being offered.         *)
(***************************************************************************)
RunPrompt(e) == IsPrompt(e, {"run"})

RunPrompts == SelectSeq(log, RunPrompt)

FirstMatch(r) ==
    IF r.project_creation.present THEN "project_creation"
    ELSE IF r.file_modifications.present THEN "file_modifications"
    ELSE IF r.shell THEN "shell"
    ELSE "fallback"

\* the paths named by the entries of a block, as the handlers see them
BlockPaths(files) == {ProcessedEntry(files[i]).path : i \in DOMAIN files}

\* the places of chat_loop and of the self-correction, outside every handler
OutsideHandlers == {"prompt", "exited", "generate", "process", "correct"}

PCPlaces == {"handle_project_creation", "create_confirm", "create_loop", "create_offer"}
FMPlaces == {"handle_file_modifications", "modify_loop", "modify_offer",
             "modify_confirm", "modify_apply"}
ShellPlaces == {"handle_shell_execution", "run_command"}
FallbackPlaces == {"handle_fallback_code_block", "run_command", "fallback_filename",
                   "fallback_select", "fallback_create_offer", "fallback_create_confirm",
                   "fallback_modify_offer", "fallback_modify_confirm"}

\* events that only the fenced-code fallback produces
FallbackEvent(e) ==
    \/ e.ev = "panel" /\ e.p \in {"fallback_shell", "proposal", "which_file"}
    \/ IsPrompt(e, {"filename", "select", "create", "modify"})

C11_FirstMatchWins ==
    ~IsBlank(response) =>
        CASE FirstMatch(response) = "project_creation" ->
                /\ pc \in OutsideHandlers \cup PCPlaces
                /\ \A k \in DOMAIN log :
                      /\ log[k].ev \notin {"diff", "run", "popen"}
                      /\ log[k].ev = "prompt" => log[k].p \in {"create_batch", "offer"}
                      /\ ~FallbackEvent(log[k])
                      /\ log[k].ev \in {"row", "write", "mkdir", "validate"} =>
                            log[k].p \in BlockPaths(response.project_creation.files)
          [] FirstMatch(response) = "file_modifications" ->
                /\ pc \in OutsideHandlers \cup FMPlaces
                /\ \A k \in DOMAIN log :
                      /\ log[k].ev \notin {"row", "mkdir", "run", "popen"}
                      /\ log[k].ev = "prompt" => log[k].p \in {"modify_batch", "offer"}
                      /\ ~FallbackEvent(log[k])
                      /\ log[k].ev \in {"diff", "write", "validate"} =>
                            log[k].p \in BlockPaths(response.file_modifications.files)
          [] FirstMatch(response) = "shell" ->
                /\ pc \in OutsideHandlers \cup ShellPlaces
                /\ \A k \in DOMAIN log :
                      /\ log[k].ev \notin {"row", "diff", "write", "mkdir", "validate",
                                            "correction_request"}
                      /\ log[k].ev = "prompt" => log[k].p = "run"
                      /\ ~FallbackEvent(log[k])
                      /\ log[k].ev \in {"run", "popen"} =>
                            \E i \in DOMAIN response.commands :
                                log[k].c = Strip(response.commands[i])
          [] OTHER ->
                /\ pc \in OutsideHandlers \cup FallbackPlaces
                /\ \A k \in DOMAIN log :
                      /\ log[k].ev \notin {"row", "mkdir"}
                      /\ ~IsPrompt(log[k], {"create_batch", "modify_batch"})
                      /\ log[k] # E("panel", "multiple", "", "")

\* a response that holds all four kinds was handled as a project creation
\* and its file was written
C11_Witness ==
    /\ Done
    /\ response.project_creation.present
    /\ response.file_modifications.present
    /\ response.shell
    /\ response.blocks # <<>>
    /\ \E k \in DOMAIN log : log[k].ev = "write" /\ log[k].r = "ok"

(***************************************************************************)
(* C12: a response whose <project_creation> or <file_modifications> tag    *)
(* is dispatched but holds no parsed <file> entry (or is not closed)       *)
(* yields nothing: no prompt, no write, mkdir or command start, no         *)
(* validation, no correction request, and loaded_files is unchanged.       *)
(***************************************************************************)
\* the dispatched block holds no entry
EmptyBlock(r) ==
    \/ FirstMatch(r) = "project_creation" /\ r.project_creation.files = <<>>
    \/ FirstMatch(r) = "file_modifications" /\ r.file_modifications.files = <<>>

C12_EmptyBlockDoesNothing ==
    EmptyBlock(response) =>
        /\ pc \in {"process", "handle_project_creation", "handle_file_modifications",
                    "prompt", "exited"}
        /\ \A k \in DOMAIN log :
              log[k].ev \notin {"prompt", "write", "mkdir", "run", "popen", "row", "diff",
                                "validate", "correction_request"}
        /\ loaded_files = loaded_before

\* a closed <project_creation> block without entries was handled
C12_Witness ==
    /\ Done
    /\ response.project_creation.present
    /\ response.project_creation.closed
    /\ response.project_creation.files = <<>>
    /\ \E k \in DOMAIN log : log[k] = E("panel", "raw", "", "")

(***************************************************************************)
(* C13 as stated: in an accepted <project_creation> batch, an entry whose  *)
(* path ends in '/' and whose stripped content is non-empty and holds no   *)
(* newline makes a directory at path+content, and no file is written for   *)
(* that entry.                                                             *)
(***************************************************************************)
\* the entry is a directory name split across the two captures (line 1050)
SplitDirectory(entry) ==
    /\ EndsWithSlash(Strip(entry.path))
    /\ Strip(entry.content) # EMPTY
    /\ ~HasNewline(Strip(entry.content))

\* the loop over the accepted batch ran to its end
BatchCreated ==
    /\ Done
    /\ FirstMatch(response) = "project_creation"
    /\ \E j \in DOMAIN log : IsPrompt(log[j], {"create_batch"}) /\ log[j].r = "yes"
    /\ \A k \in DOMAIN log : log[k].ev # "correction_request"

C13_SplitDirectoryIsCreated ==
    BatchCreated =>
        \A i \in DOMAIN response.project_creation.files :
            LET entry == response.project_creation.files[i]
                target == Concat(Strip(entry.path), Strip(entry.content))
            IN SplitDirectory(entry) =>
                  /\ \E k \in DOMAIN log : log[k].ev = "mkdir" /\ log[k].p = target
                  /\ \A k \in DOMAIN log : ~(log[k].ev = "write" /\ log[k].p = target)

(***************************************************************************)
(* C14 as stated: in the fallback, shell commands are proposed if and only *)
(* if every fenced block is tagged shell, bash or sh; otherwise no command *)
(* is proposed and only the first block is used as file content.           *)
(***************************************************************************)
\* handle_fallback_code_block has taken its first decision
FallbackDecided ==
    /\ FirstMatch(response) = "fallback"
    /\ response.blocks # <<>>
    /\ pc \notin {"process", "handle_fallback_code_block"}
    /\ \E k \in DOMAIN log : log[k] = E("panel", "raw", "", "")

\* the blocks were proposed as shell commands
ShellProposed == \E k \in DOMAIN log : log[k] = E("panel", "fallback_shell", "", "")

\* the first block alone is used, as file content
OnlyFirstBlockUsed ==
    \A k \in DOMAIN log :
        /\ log[k].ev \notin {"run", "popen"}
        /\ ~RunPrompt(log[k])
        /\ log[k].ev \in {"validate", "diff", "write"} =>
              log[k].c = Strip(response.blocks[1].content)

C14_ShellIffAllTagged ==
    FallbackDecided =>
        /\ ShellProposed <=>
              \A i \in DOMAIN response.blocks : IsShellLang(response.blocks[i].lang)
        /\ ~ShellProposed => OnlyFirstBlockUsed

(***************************************************************************)
(* C14 amended: blocks whose stripped content is empty are ignored         *)
(* whatever their tag; shell commands are proposed if and only if some     *)
(* block is non-empty and every non-empty block is tagged shell, bash or   *)
(* sh, and then the commands are the stripped non-empty contents in order; *)
(* otherwise no command is proposed and only the first block is used as    *)
(* file content (nothing is proposed when it is empty).                    *)
(***************************************************************************)
NonEmptyBlock(b) == Strip(b.content) # EMPTY

NonEmptyBlocks == SelectSeq(response.blocks, NonEmptyBlock)

C14_ShellIffAllNonEmptyTagged ==
    FallbackDecided =>
        /\ ShellProposed <=>
              /\ NonEmptyBlocks # <<>>
              /\ \A i \in DOMAIN NonEmptyBlocks : IsShellLang(NonEmptyBlocks[i].lang)
        /\ ShellProposed =>
              /\ Len(RunPrompts) <= Len(NonEmptyBlocks)
              /\ \A i \in DOMAIN RunPrompts :
                    RunPrompts[i].c = Strip(NonEmptyBlocks[i].content)
              /\ \A k \in DOMAIN log : log[k].ev \notin {"validate", "diff", "write"}
              /\ Done => \/ Len(RunPrompts) = Len(NonEmptyBlocks)
                          \/ RunPrompts[Len(RunPrompts)].r = "interrupt"
        /\ ~ShellProposed =>
              /\ OnlyFirstBlockUsed
              /\ ~NonEmptyBlock(response.blocks[1]) =>
                    \A k \in DOMAIN log : log[k].ev # "prompt"

\* an empty block tagged python came with a bash block, whose command ran
C14_Witness ==
    /\ FallbackDecided
    /\ ShellProposed
    /\ \E i \in DOMAIN response.blocks : ~IsShellLang(response.blocks[i].lang)
    /\ \E k \in DOMAIN log : log[k].ev = "run" /\ log[k].r = "exit0"

(***************************************************************************)
(* C15: in the fallback with file content in the first block, the target   *)
(* is decided by the number of loaded files: one gives a modification of   *)
(* that file, none gives a creation under the filename the user types,     *)
(* two or more give a modification of the file the user selects; an empty  *)
(* filename, an empty selection or an interrupted selection ends the       *)
(* handler with nothing validated, proposed or written.                    *)
(***************************************************************************)
\* the first block is taken as file content
FileContentProposed ==
    FallbackDecided /\ ~ShellProposed /\ NonEmptyBlock(response.blocks[1])

\* every validation, diff, write, offer and apply prompt of the log names path
TargetIs(path) ==
    \A k \in DOMAIN log :
        /\ log[k].ev \in {"validate", "diff", "write"} => log[k].p = path
        /\ IsPrompt(log[k], {"create", "modify", "offer"}) => log[k].c = path

FilenamePrompt(e) == IsPrompt(e, {"filename"})
SelectPrompt(e) == IsPrompt(e, {"select"})

\* the answers given at the filename prompt and at the selection prompt
AskedFilename == SelectSeq(log, FilenamePrompt)
AskedSelect == SelectSeq(log, SelectPrompt)

\* no prompt of these kinds is in the log
NotAsked(kinds) == \A k \in DOMAIN log : ~IsPrompt(log[k], kinds)

C15_TargetByLoadedFiles ==
    FileContentProposed =>
        LET loaded == LoadedPaths(loaded_before) IN
        /\ Cardinality(loaded) = 1 =>
              /\ NotAsked({"filename", "select", "create"})
              /\ \A f \in loaded : TargetIs(f)
              /\ pc \in {"fallback_modify_offer", "fallback_modify_confirm",
                          "correct", "prompt", "exited"}
        /\ Cardinality(loaded) = 0 =>
              /\ NotAsked({"select", "modify"})
              /\ pc = "fallback_filename" <=> AskedFilename = <<>>
              /\ AskedFilename # <<>> =>
                    /\ Len(AskedFilename) = 1
                    /\ TargetIs(AskedFilename[1].c)
        /\ Cardinality(loaded) >= 2 =>
              /\ NotAsked({"filename", "create"})
              /\ pc = "fallback_select" <=> AskedSelect = <<>>
              /\ AskedSelect # <<>> =>
                    /\ Len(AskedSelect) = 1
                    /\ AskedSelect[1].r = "given" => AskedSelect[1].c \in loaded
                    /\ TargetIs(AskedSelect[1].c)
        /\ \A k \in DOMAIN log :
              (IsPrompt(log[k], {"filename", "select"}) /\ log[k].r # "given") =>
                  /\ pc = "prompt"
                  /\ \A m \in DOMAIN log :
                        log[m].ev \notin {"validate", "diff", "write", "correction_request"}
                  /\ NotAsked({"create", "modify", "offer"})
                  /\ loaded_files = loaded_before

\* with two files loaded the user selected one and the modification was written
C15_Witness ==
    /\ Done
    /\ FileContentProposed
    /\ Cardinality(LoadedPaths(loaded_before)) = 2
    /\ \E k \in DOMAIN log : IsPrompt(log[k], {"select"}) /\ log[k].r = "given"
    /\ \E k \in DOMAIN log : log[k].ev = "write" /\ log[k].r = "ok"

(***************************************************************************)
(* C16 as stated: when the processing of a response ends, every file that  *)
(* a confirmed creation (a <project_creation> block, or the fallback with  *)
(* a typed filename) has written successfully is in loaded_files under its *)
(* path, with the content written.                                         *)
(***************************************************************************)
\* the write log[k] succeeded and no later write of the log names its path
LastWriteOk(k) ==
    /\ log[k].ev = "write"
    /\ log[k].r = "ok"
    /\ \A m \in (k + 1)..Len(log) : ~(log[m].ev = "write" /\ log[m].p = log[k].p)

\* the writes of the log are file creations
CreationHandled == FirstMatch(response) = "project_creation" \/ ~NotAsked({"create"})

C16_CreatedFilesLoaded ==
    (Done /\ CreationHandled) =>
        \A k \in DOMAIN log :
            LastWriteOk(k) => loaded_files[log[k].p] = log[k].c

(***************************************************************************)
(* C17 as stated: after a <file_modifications> batch was confirmed, every  *)
(* directive {path, content} of the batch whose path was written with      *)
(* success reads back as exactly that content, from disk and from          *)
(* loaded_files, also when several entries name the same path.             *)
(***************************************************************************)
\* the confirmed batch of a <file_modifications> block has been applied
BatchModified ==
    /\ Done
    /\ FirstMatch(response) = "file_modifications"
    /\ \E j \in DOMAIN log : IsPrompt(log[j], {"modify_batch"}) /\ log[j].r = "yes"

C17_ModifiedReadsBack ==
    BatchModified =>
        \A i \in DOMAIN log :
            (/\ log[i].ev = "diff"
             /\ \E k \in DOMAIN log :
                   log[k].ev = "write" /\ log[k].p = log[i].p /\ log[k].r = "ok") =>
                /\ read_file(disk, log[i].p).content = log[i].c
                /\ loaded_files[log[i].p] = log[i].c

(***************************************************************************)
(* C18 as stated: nothing that happens while a response is processed ends  *)
(* the chat session; chat_loop ends only when the user quits at its prompt *)
(* or interrupts the token stream.                                         *)
(***************************************************************************)
\* the last thing that happened is a Ctrl-C in a token loop
StreamInterrupted ==
    /\ log # <<>>
    /\ log[Len(log)].ev = "generate"
    /\ log[Len(log)].r = "interrupt"

C18_SessionSurvives ==
    pc = "exited" => (log = <<>> \/ StreamInterrupted)

(***************************************************************************)
(* C19: after a Ctrl-C in a token loop the partial response is discarded:  *)
(* process_response is not called on it, no prompt is shown, nothing is    *)
(* written or executed and nothing is appended to conversation_history.    *)
(***************************************************************************)
C19_InterruptDiscardsPartial ==
    \A k \in DOMAIN log :
        (log[k].ev = "generate" /\ log[k].r = "interrupt") =>
            /\ pc \in {"exited", "prompt"}
            /\ \A m \in (k + 1)..Len(log) :
                  log[m] \in {E("panel", "cancelled", "", ""), E("clear", "", "", "")}

\* the stream of a user turn was interrupted after text had arrived
C19_Witness ==
    /\ pc = "exited"
    /\ log = <<E("generate", "text", "", "interrupt")>>
    /\ generations = 1

(***************************************************************************)
(* C20 as stated: when the generation call fails (a request error caught   *)
(* by generate, or an exception that leaves the token loop), no directive  *)
(* of the text received before the failure is validated, proposed or       *)
(* applied.                                                                *)
(***************************************************************************)
\* a directive is shown, validated, asked about or carried out
DirectiveEvent(e) ==
    \/ e.ev \in {"row", "diff", "validate", "prompt", "write", "mkdir", "run", "popen",
                  "correction_request"}
    \/ FallbackEvent(e)

C20_FailedGenerationProcessesNothing ==
    \A k \in DOMAIN log :
        (log[k].ev = "generate" /\ log[k].r \in {"api_error", "exception"}) =>
            \A m \in (k + 1)..Len(log) : ~DirectiveEvent(log[m])

(***************************************************************************)
(* C21 as stated: the path of every <file> entry that is shown in the      *)
(* table or as a diff, or that is passed to write_file or mkdir, is a      *)
(* non-empty relative path; an entry whose path attribute is empty or      *)
(* absolute is never proposed and never handed to the Mutator.             *)
(***************************************************************************)
\* a non-empty path that stays below the working directory
RelativeNonEmpty(path) == path # NO_PATH /\ ~NotBelowBase(path)

C21_PathsRelativeNonEmpty ==
    FirstMatch(response) \in {"project_creation", "file_modifications"} =>
        \A k \in DOMAIN log :
            log[k].ev \in {"row", "diff", "write", "mkdir"} => RelativeNonEmpty(log[k].p)

(***************************************************************************)
(* C22 as stated: for the entries of a <project_creation> or               *)
(* <file_modifications> block, write_file is never called with content     *)
(* that is empty after stripping, so that no response truncates a file to  *)
(* empty.                                                                  *)
(***************************************************************************)
C22_NoEmptyWrite ==
    FirstMatch(response) \in {"project_creation", "file_modifications"} =>
        \A k \in DOMAIN log : ~(log[k].ev = "write" /\ log[k].c = EMPTY)

(***************************************************************************)
(* C23: a confirmed batch is applied entry by entry, in order, and a       *)
(* failing write or mkdir is reported for its entry alone.                 *)
(***************************************************************************)
\* what the creation loop does with one entry: mkdir, write_file, or the
\* refusal of a .py file that failed validation
Attempt(e) == e.ev \in FileMutations \/ (e.ev = "validate" /\ e.r = "error")
Attempts == SelectSeq(log, Attempt)

FileMutation(e) == e.ev \in FileMutations
Applied == SelectSeq(log, FileMutation)

Diff(e) == e.ev = "diff"
Diffs == SelectSeq(log, Diff)

\* handle_project_creation: the attempts follow processed_files one by one
CreatedInOrder ==
    FirstMatch(response) = "project_creation" =>
        LET entries == ProcessedFiles(response.project_creation.files) IN
        /\ Len(Attempts) <= Len(entries)
        /\ \A i \in DOMAIN Attempts :
              /\ Attempts[i].p = entries[i].path
              /\ Attempts[i].ev = "mkdir" <=> EndsWithSlash(entries[i].path)
              /\ Attempts[i].ev # "mkdir" => Attempts[i].c = StripFence(entries[i].content)
        /\ pc = "create_loop" => Len(Attempts) = locals.idx - 1
        /\ pc = "create_offer" => Len(Attempts) = locals.idx
        /\ BatchCreated => Len(Attempts) = Len(entries)

\* a failed write or mkdir is followed by its own report, and loaded_files
\* keeps what it held for a path that no write of the batch reached
FailureIsLocal ==
    FirstMatch(response) \in {"project_creation", "file_modifications"} =>
        \A k \in DOMAIN log :
            (log[k].ev \in FileMutations /\ log[k].r # "ok") =>
                /\ k < Len(log)
                /\ log[k + 1] = E("print", log[k].r, log[k].p, "")
                /\ (/\ log[k].p \in Files
                    /\ \A m \in DOMAIN log :
                          ~(log[m].ev = "write" /\ log[m].p = log[k].p /\ log[m].r = "ok")) =>
                      loaded_files[log[k].p] = loaded_before[log[k].p]

\* handle_file_modifications: one write per entry that got a diff, in the
\* order of the entries
ModifiedInOrderOfEntries ==
    FirstMatch(response) = "file_modifications" =>
        /\ Len(Applied) <= Len(Diffs)
        /\ \A i \in DOMAIN Applied :
              Applied[i].p = Diffs[i].p /\ Applied[i].c = Diffs[i].c
        /\ BatchModified => Len(Applied) = Len(Diffs)

(***************************************************************************)
(* C23 as stated: both handlers make one Mutator call per entry, in the    *)
(* textual order of the entries; after a failure every later entry is      *)
(* still attempted, and the failed entry leaves loaded_files unchanged.    *)
(***************************************************************************)
C23_EveryEntryInOrder == CreatedInOrder /\ ModifiedInOrderOfEntries /\ FailureIsLocal

(***************************************************************************)
(* C24: a confirmed command that starts with the terminal launcher is      *)
(* started with Popen, not waited for, and reported as launched, a report  *)
(* that no synchronous command gets and that is never a failure report for *)
(* lack of output; every other confirmed command is run with               *)
(* subprocess.run and its report is the one of its exit code and of the    *)
(* presence of captured output.                                            *)
(***************************************************************************)
\* the reports of a command that subprocess.run waited for
CompletedReports ==
    {"success_no_output", "error_code_no_output",
     "output_success_border", "output_error_border"}

C24_LaunchedOrCompleted ==
    \A k \in DOMAIN log :
        (RunPrompt(log[k]) /\ log[k].r = "yes") =>
            /\ k + 3 <= Len(log)
            /\ log[k + 1].c = log[k].c
            /\ log[k + 2].ev = "panel" /\ log[k + 2].c = log[k].c
            /\ log[k + 3].ev = "clear"
            /\ IF StartsWithLauncher(log[k].c)
               THEN /\ log[k + 1].ev = "popen"
                    /\ log[k + 1].r \in {"launched", "raised"}
                    /\ log[k + 1].r = "launched" =>
                          /\ log[k + 2].p = "launched_in_terminal"
                          /\ log[k + 2].p \notin CompletedReports
                    /\ log[k + 1].r = "raised" => log[k + 2].p = "error"
               ELSE /\ log[k + 1].ev = "run"
                    /\ log[k + 1].r = "exit0" => log[k + 2].p = "success_no_output"
                    /\ log[k + 1].r = "nonzero" => log[k + 2].p = "error_code_no_output"
                    /\ log[k + 1].r = "exit0_output" => log[k + 2].p = "output_success_border"
                    /\ log[k + 1].r = "nonzero_output" => log[k + 2].p = "output_error_border"
                    /\ log[k + 1].r = "raised" => log[k + 2].p = "error"
                    /\ log[k + 1].r \in {"exit0", "nonzero", "exit0_output",
                                          "nonzero_output", "raised"}

\* a launcher command was launched and a plain command then ended with a
\* non-zero code and no output
C24_Witness ==
    /\ Done
    /\ \E k \in DOMAIN log :
          /\ log[k].ev = "popen" /\ log[k].r = "launched"
          /\ log[k + 1] = E("panel", "launched_in_terminal", log[k].c, "")
          /\ \E m \in (k + 1)..Len(log) :
                /\ log[m].ev = "run" /\ log[m].r = "nonzero"
                /\ log[m + 1] = E("panel", "error_code_no_output", log[m].c, "")

(***************************************************************************)
(* C25: a modification whose proposed content is identical to the current  *)
(* content of the file is not skipped: it gets its diff, which is empty,   *)
(* the diff is displayed and the confirmation is asked, in                 *)
(* handle_file_modifications and in the fallback modification alike.       *)
(***************************************************************************)
\* the entry is not refused by the validation of .py files
PassesValidation(path, new_content) == ~(EndsWithPy(path) /\ ~CompilesAsPython(new_content))

\* the handler was left before its loop ended: a correction was requested or
\* a prompt was interrupted
LeftEarly ==
    \E k \in DOMAIN log :
        \/ log[k].ev = "correction_request"
        \/ log[k].ev = "prompt" /\ log[k].r = "interrupt"

EmptyDiffShown == \E k \in DOMAIN log : log[k].ev = "diff" /\ log[k].r = "empty"

C25_EmptyDiffStillProposed ==
    /\ pc = "modify_confirm" =>
          /\ \A i \in DOMAIN locals.files_to_modify :
                LET path == Strip(locals.files_to_modify[i].path)
                    new_content == StripFence(Strip(locals.files_to_modify[i].content))
                IN PassesValidation(path, new_content) =>
                      \E k \in DOMAIN log :
                          log[k] = E("diff", path, new_content,
                                     DiffText(OriginalContent(loaded_files, disk, path),
                                              new_content))
          /\ \E k \in DOMAIN log : log[k] = E("panel", "diffs", "", "")
    /\ pc = "fallback_modify_confirm" =>
          \E k \in DOMAIN log :
              log[k] = E("diff", locals.path, locals.new_content,
                         DiffText(FallbackOriginal(loaded_files, locals.path),
                                  locals.new_content))
    /\ (EmptyDiffShown /\ FirstMatch(response) = "file_modifications" /\ ~LeftEarly) =>
          \/ pc \in {"modify_loop", "modify_offer"}
          \/ /\ \E k \in DOMAIN log : log[k] = E("panel", "diffs", "", "")
             /\ pc = "modify_confirm" \/ ~NotAsked({"modify_batch"})
    /\ (EmptyDiffShown /\ FirstMatch(response) = "fallback") =>
          pc = "fallback_modify_confirm" \/ ~NotAsked({"modify"})

\* a batch whose only diff is empty was proposed and confirmed
C25_Witness ==
    /\ Done
    /\ FirstMatch(response) = "file_modifications"
    /\ Len(Diffs) = 1
    /\ EmptyDiffShown
    /\ \E k \in DOMAIN log : IsPrompt(log[k], {"modify_batch"}) /\ log[k].r = "yes"

(***************************************************************************)
(* C26 as stated: a file directive whose path does not end in .py is never *)
(* validated, never leads to a correction offer or request, and reaches    *)
(* the confirmation prompt of its handler, whatever its content.           *)
(***************************************************************************)
\* process_response has handled the response and its handler has returned
\* without a Ctrl-C
HandlerReturned ==
    /\ pc \in {"prompt", "correct"}
    /\ \E k \in DOMAIN log : log[k] = E("panel", "raw", "", "")
    /\ \A k \in DOMAIN log : ~(log[k].ev = "prompt" /\ log[k].r = "interrupt")

C26_NonPyReachesConfirmation ==
    /\ \A k \in DOMAIN log :
          /\ log[k].ev \in {"validate", "correction_request"} => EndsWithPy(log[k].p)
          /\ IsPrompt(log[k], {"offer"}) => EndsWithPy(log[k].c)
    /\ (HandlerReturned /\ FirstMatch(response) = "project_creation"
                        /\ response.project_creation.closed
                        /\ response.project_creation.files # <<>>) =>
          ~NotAsked({"create_batch"})
    /\ (HandlerReturned /\ FirstMatch(response) = "file_modifications"
                        /\ response.file_modifications.closed) =>
          \A i \in DOMAIN response.file_modifications.files :
              LET path == Strip(response.file_modifications.files[i].path) IN
              ~EndsWithPy(path) =>
                  /\ \E k \in DOMAIN log : log[k].ev = "diff" /\ log[k].p = path
                  /\ ~NotAsked({"modify_batch"})
    /\ (FirstMatch(response) = "fallback" /\ ~EndsWithPy(locals.path)
            /\ \E k \in DOMAIN log : IsPrompt(log[k], {"filename", "select"})
                                     /\ log[k].r = "given" /\ ~EndsWithPy(log[k].c)) =>
          pc \in {"fallback_create_confirm", "fallback_modify_confirm"}
          \/ ~NotAsked({"create", "modify"})

(***************************************************************************)
(* C27 as stated: once the processing of a response has finished, every    *)
(* declined confirmation (shell command, creation batch, modification      *)
(* batch, fallback creation or modification) has left a cancellation       *)
(* notice on the screen: a panel of chat_renderables, or a line printed    *)
(* after the last console.clear of _update_display.                        *)
(***************************************************************************)
\* the cancellation notice that follows log[k] is still displayed
NoticeRemains(k) ==
    \E m \in (k + 1)..Len(log) :
        \/ log[m].ev = "panel" /\ log[m].p = "cancelled"
        \/ /\ log[m] = E("print", "cancelled", "", "")
           /\ \A n \in (m + 1)..Len(log) : log[n].ev # "clear"

C27_DeclineNoticeRemains ==
    Done =>
        \A k \in DOMAIN log :
            (IsPrompt(log[k], ApplyPrompts \cup {"run"}) /\ log[k].r = "no") =>
                NoticeRemains(k)

(***************************************************************************)
(* C28 as stated: process_response is entered at most twice per user turn, *)
(* the second time with is_correction_attempt=True after the one           *)
(* correction request, and the processing of a response always ends at the *)
(* chat prompt, as long as the user answers every prompt (a Ctrl-C is not  *)
(* an answer).                                                             *)
(***************************************************************************)
\* each entry of process_response follows a generation of its own, and only
\* the second generation of a turn is a correction
ProcessAtMostTwice ==
    /\ generations <= 2
    /\ corrections <= 1
    /\ pc = "process" =>
          /\ generations \in {1, 2}
          /\ is_correction_attempt <=> generations = 2
          /\ is_correction_attempt <=> corrections = 1

\* the session ended because the user pressed Ctrl-C
UserInterrupted ==
    /\ pc = "exited"
    /\ log # <<>>
    /\ log[Len(log)].r = "interrupt"

C28_ReturnsToPrompt ==
    /\ []ProcessAtMostTwice
    /\ (pc = "process") ~> (pc = "prompt" \/ UserInterrupted)

(***************************************************************************)
(* C29: write_file is reached for a path that ends in .py only with        *)
(* content that the syntax check accepted: every such write of the four    *)
(* write sites, for the original and for a regenerated response, follows a *)
(* successful validation of that very content for that path, and the .py   *)
(* file on disk always compiles.                                           *)
(***************************************************************************)
C29_PyWritesAreValid ==
    /\ \A k \in DOMAIN log :
          (log[k].ev = "write" /\ EndsWithPy(log[k].p)) =>
              /\ CompilesAsPython(log[k].c)
              /\ \E v \in 1..(k - 1) : log[v] = E("validate", log[k].p, log[k].c, "ok")
    /\ \A f \in Files :
          (EndsWithPy(f) /\ disk[f] # Absent) => CompilesAsPython(disk[f])

\* the user declined a correction offer and a .py file was written later on
C29_Witness ==
    \E j \in DOMAIN log :
        /\ IsPrompt(log[j], {"offer"})
        /\ log[j].r = "no"
        /\ \E k \in (j + 1)..Len(log) :
              log[k].ev = "write" /\ EndsWithPy(log[k].p) /\ log[k].r = "ok"

(***************************************************************************)
(* C30 as stated: when handle_file_modifications has applied a confirmed   *)
(* batch, the number N announced in the confirmation prompt                *)
(* (valid_modifications_count) is the number of diffs displayed and the    *)
(* number of write_file calls made, also when two <file> entries name the  *)
(* same path.                                                              *)
(***************************************************************************)
\* the loop over cleaned_files_content.items() has ended (line 1182)
ModificationsApplied ==
    pc = "modify_apply" /\ locals.idx > Len(locals.cleaned_files_content)

C30_CountMatchesWrites ==
    /\ pc \in {"modify_confirm", "modify_apply"} =>
          /\ locals.valid_modifications_count = Len(locals.diff_panels)
          /\ locals.valid_modifications_count = Len(Diffs)
    /\ ModificationsApplied => locals.valid_modifications_count = Len(Applied)

====
